---- MODULE Spec2Model ----
(***************************************************************************)
(* nocc: removal of closed-captioning artifacts from subtitle text.        *)
(*                                                                         *)
(* A text is a sequence of characters, each character a one-character      *)
(* string.  The regular expressions of REMOVE_RE and REPLACE_RE are        *)
(* modelled by matchers that compute, for a text and a position, the       *)
(* length of the match Python's re finds there (0: no match), with         *)
(* re.sub's left-to-right, non-overlapping scan on top of them.            *)
(***************************************************************************)
EXTENDS Integers, Sequences, FiniteSets, TLC

VARIABLES
    \* SubtitleCleaner.clean_text, one call in progress
    input,          \* the text the first call was given
    text,           \* the local text
    applied_rules,  \* the local applied_rules
    pc,             \* where the call is: entry, remove, replace, join, return
    rule,           \* index of the rule the current loop is about to apply
    pass,           \* 1: the call on input; 2: the call on the first result
    first,          \* what the first call returned
    \* SubtitleCleaner._join_short, one call
    jtext,          \* the text the call is given
    jresult,        \* what the call returned, NoResult before it
    \* process_subtitle_file, one call in progress
    fs,             \* the files: path -> document, Garbage or Absent
    filename,       \* the argument filename
    output_path,    \* the argument output_path, or None
    subs,           \* the document in memory: a sequence of entries
    opened,         \* the document as pysrt.open returned it
    index,          \* the loop variable of the loop over the entries
    delete_indices, \* the local delete_indices (positions from 1)
    dpos,           \* how many of delete_indices are still to delete
    modified,       \* the local modified
    fpc,            \* where the call is
    events,         \* the output handler's events of this call, in order
    saves,          \* calls of subs.save in this call
    renames,        \* renames of the source done in this call
    run,            \* which call this is
    produced,       \* the document in memory when the previous call returned
    \* process_mkv, one call in progress
    all_tracks,     \* what list_srt_tracks returns: (track_id, language)
    extract_ok,     \* track_id -> whether mkvextract succeeds on that track
    language_filter,\* the argument language_filter, or None
    tracks,         \* the local tracks
    ti,             \* position in tracks of the loop over the tracks
    temp_files,     \* track ids with an extracted file in the temp directory
    outputs,        \* track ids with an output file beside the MKV file
    mlog,           \* what was printed, in order
    mpc             \* where the call is

cleanVars == <<input, text, applied_rules, pc, rule, pass, first>>

joinVars == <<jtext, jresult>>

fileVars == <<fs, filename, output_path, subs, opened, index, delete_indices,
              dpos, modified, fpc, events, saves, renames, run, produced>>

mkvVars == <<all_tracks, extract_ok, language_filter, tracks, ti, temp_files,
             outputs, mlog, mpc>>

vars == <<cleanVars, joinVars, fileVars, mkvVars>>

\* ------------------------------------------------------------ characters

\* Config.SONG_CHARACTER, the musical-note glyph U+266A, as one character.
SONG_CHARACTER == "U+266A"

\* Config.MAX_LINE_LENGTH and Config.MAX_JOINED_LENGTH.
MAX_LINE_LENGTH == 30
MAX_JOINED_LENGTH == 40

NL == "\n"

\* What At returns outside the text: no character at all.
NoChar == ""

\* \s of a str pattern, and the characters str.strip() removes.
Whitespace == {" ", "\t", "\n", "\r", "\f"}

Upper == {"A", "B", "C", "D", "E", "F", "G", "H", "I", "J", "K", "L", "M",
          "N", "O", "P", "Q", "R", "S", "T", "U", "V", "W", "X", "Y", "Z"}

Lower == {"a", "b", "c", "d", "e", "f", "g", "h", "i", "j", "k", "l", "m",
          "n", "o", "p", "q", "r", "s", "t", "u", "v", "w", "x", "y", "z"}

Digit == {"0", "1", "2", "3", "4", "5", "6", "7", "8", "9"}

\* \w
WordChar == Upper \cup Lower \cup Digit \cup {"_"}

\* [0-9A-Z\s\-\#\.], the class of the two leading speaker-label rules.
PersonClass == Digit \cup Upper \cup Whitespace \cup {"-", "#", "."}

\* [0-9A-Z], the class of the 'person middle' rule.
MiddleClass == Digit \cup Upper

\* ------------------------------------------------------------ str helpers

At(s, i) == IF i \in 1..Len(s) THEN s[i] ELSE NoChar

\* s[i..] as a text.
Drop(s, n) == IF n >= Len(s) THEN <<>> ELSE SubSeq(s, n + 1, Len(s))

\* substr in text, for a one-character substr.
Contains(s, c) == \E i \in 1..Len(s) : s[i] = c

RECURSIVE LStrip(_)
LStrip(s) == IF s # <<>> /\ s[1] \in Whitespace THEN LStrip(Tail(s)) ELSE s

RECURSIVE RStrip(_)
RStrip(s) ==
    IF s # <<>> /\ s[Len(s)] \in Whitespace
    THEN RStrip(SubSeq(s, 1, Len(s) - 1))
    ELSE s

\* str.rstrip() in the place of str.strip().
StripRightOnly(s) == RStrip(s)

\* str.strip()
Strip(s) == RStrip(LStrip(s))

\* str.split('\n'): the lines of s, always at least one.
RECURSIVE Split(_)
Split(s) ==
    IF \A i \in 1..Len(s) : s[i] # NL
    THEN <<s>>
    ELSE LET p == CHOOSE i \in 1..Len(s) :
                      s[i] = NL /\ \A j \in 1..(i - 1) : s[j] # NL
         IN  <<SubSeq(s, 1, p - 1)>> \o Split(Drop(s, p))

\* sep.join(lines), lines non-empty.
RECURSIVE JoinWith(_, _)
JoinWith(lines, sep) ==
    IF Len(lines) = 1
    THEN lines[1]
    ELSE lines[1] \o sep \o JoinWith(Tail(lines), sep)

\* text.replace('\n', ' ')
ReplaceNewlines(s) == [i \in 1..Len(s) |-> IF s[i] = NL THEN " " ELSE s[i]]

\* ------------------------------------------------------------ the patterns

\* Length of the longest run of characters of cls starting at s[i].
RECURSIVE RunLen(_, _, _)
RunLen(s, i, cls) == IF At(s, i) \in cls THEN 1 + RunLen(s, i + 1, cls) ELSE 0

\* .*?<close>: the position of the first <close> at or after i with no line
\* break before it ('.' does not match a line break); 0 when there is none.
RECURSIVE FirstClose(_, _, _)
FirstClose(s, i, close) ==
    IF i > Len(s) \/ s[i] = NL THEN 0
    ELSE IF s[i] = close THEN i
    ELSE FirstClose(s, i + 1, close)

\* </?font.*?>
MatchFont(s, i) ==
    IF At(s, i) # "<" THEN 0
    ELSE LET k == IF At(s, i + 1) = "/" THEN i + 2 ELSE i + 1
             j == FirstClose(s, k + 4, ">")
         IN  IF /\ At(s, k) = "f" /\ At(s, k + 1) = "o"
                /\ At(s, k + 2) = "n" /\ At(s, k + 3) = "t"
                /\ j > 0
             THEN j - i + 1
             ELSE 0

\* ^[0-9A-Z\s\-\#\.]+:\n-\s
MatchMultilinePerson(s, i) ==
    LET r == RunLen(s, 1, PersonClass)
    IN  IF /\ i = 1 /\ r >= 1
           /\ At(s, r + 1) = ":" /\ At(s, r + 2) = NL
           /\ At(s, r + 3) = "-" /\ At(s, r + 4) \in Whitespace
        THEN r + 4
        ELSE 0

\* ^[0-9A-Z\s\-\#\.]*?\s?:\s
MatchPerson(s, i) ==
    LET r == RunLen(s, 1, PersonClass)
    IN  IF i = 1 /\ At(s, r + 1) = ":" /\ At(s, r + 2) \in Whitespace
        THEN r + 2
        ELSE 0

\* [0-9A-Z]{3,10}\s?:\s
MatchPersonMiddle(s, i) ==
    LET r == RunLen(s, i, MiddleClass)
        k == IF At(s, i + r) \in Whitespace THEN i + r + 1 ELSE i + r
    IN  IF /\ r >= 3 /\ r <= 10
           /\ At(s, k) = ":" /\ At(s, k + 1) \in Whitespace
        THEN k + 1 - i + 1
        ELSE 0

\* \(.*?\) and \[.*?\]
MatchEnclosed(s, i, open, close) ==
    IF At(s, i) # open THEN 0
    ELSE LET j == FirstClose(s, i + 1, close)
         IN  IF j > 0 THEN j - i + 1 ELSE 0

\* $ without re.MULTILINE: at the end, or before a final line break.
AtEnd(s, p) == p = Len(s) + 1 \/ (p = Len(s) /\ s[p] = NL)

\* ^\s?-\s?$
MatchEmptyDash(s, i) ==
    LET d == IF At(s, 1) \in Whitespace THEN 2 ELSE 1
        q == d + 1
    IN  IF i # 1 \/ At(s, d) # "-" THEN 0
        ELSE IF At(s, q) \in Whitespace /\ AtEnd(s, q + 1) THEN q
        ELSE IF AtEnd(s, q) THEN q - 1
        ELSE 0

\* \s\s
MatchDoubleSpaces(s, i) ==
    IF At(s, i) \in Whitespace /\ At(s, i + 1) \in Whitespace THEN 2 ELSE 0

\* The removal rules, in order: (name, pattern).
REMOVE_RE ==
    << [name |-> "font styling",     pattern |-> "font"],
       [name |-> "multiline person", pattern |-> "multiline person"],
       [name |-> "person",           pattern |-> "person"],
       [name |-> "person middle",    pattern |-> "person middle"],
       [name |-> "effect",           pattern |-> "paren"],
       [name |-> "effect",           pattern |-> "bracket"],
       [name |-> "empty dash",       pattern |-> "empty dash"],
       [name |-> "double spaces",    pattern |-> "double spaces"] >>

\* The replacement rules, in order: (name, the character of the source
\* pattern <char>(\w), whether the pattern is anchored with ^); the
\* replacement is that character, a space, then the word character.
REPLACE_RE ==
    << [name |-> "dash missing space",  char |-> "-", anchored |-> TRUE],
       [name |-> "dot missing space",   char |-> ".", anchored |-> FALSE],
       [name |-> "comma missing space", char |-> ",", anchored |-> FALSE],
       [name |-> "? missing space",     char |-> "?", anchored |-> FALSE],
       [name |-> "! missing space",     char |-> "!", anchored |-> FALSE] >>

\* regex_pattern.match at position i of s: the length matched, 0 for none.
MatchAt(pattern, s, i) ==
    CASE pattern = "font"             -> MatchFont(s, i)
      [] pattern = "multiline person" -> MatchMultilinePerson(s, i)
      [] pattern = "person"           -> MatchPerson(s, i)
      [] pattern = "person middle"    -> MatchPersonMiddle(s, i)
      [] pattern = "paren"            -> MatchEnclosed(s, i, "(", ")")
      [] pattern = "bracket"          -> MatchEnclosed(s, i, "[", "]")
      [] pattern = "empty dash"       -> MatchEmptyDash(s, i)
      [] pattern = "double spaces"    -> MatchDoubleSpaces(s, i)

\* regex_pattern.sub('', s) from position i on.
RECURSIVE SubFrom(_, _, _)
SubFrom(pattern, s, i) ==
    IF i > Len(s) THEN <<>>
    ELSE LET m == MatchAt(pattern, s, i)
         IN  IF m > 0
             THEN SubFrom(pattern, s, i + m)
             ELSE <<s[i]>> \o SubFrom(pattern, s, i + 1)

\* regex_pattern.sub('', s)
Sub(pattern, s) == SubFrom(pattern, s, 1)

\* re.sub(source_pattern, replacement, s) from position i on.
RECURSIVE ReplaceFrom(_, _, _)
ReplaceFrom(rr, s, i) ==
    IF i > Len(s) THEN <<>>
    ELSE IF /\ s[i] = rr.char
            /\ At(s, i + 1) \in WordChar
            /\ (rr.anchored => i = 1)
         THEN <<s[i], " ", s[i + 1]>> \o ReplaceFrom(rr, s, i + 2)
         ELSE <<s[i]>> \o ReplaceFrom(rr, s, i + 1)

\* re.sub(source_pattern, replacement, s)
ReSub(rr, s) == ReplaceFrom(rr, s, 1)

\* ------------------------------------------------------------ _join_short

\* max((len(line) for line in lines), default=0)
RECURSIVE MaxLen(_)
MaxLen(lines) ==
    IF lines = <<>> THEN 0
    ELSE LET m == MaxLen(Tail(lines))
         IN  IF Len(lines[1]) > m THEN Len(lines[1]) ELSE m

\* lines[0].endswith('?')
EndsWithQuestion(line) == line # <<>> /\ line[Len(line)] = "?"

\* _join_short without the check of the first line's question mark.
join_short_ignoring_question(t) ==
    LET lines   == Split(t)
        max_len == MaxLen(lines)
        joined  == JoinWith(lines, <<" ">>)
    IN  IF Len(lines) <= 1 \/ Contains(t, "-")
        THEN [joined |-> FALSE, text |-> t]
        ELSE IF /\ 0 < max_len /\ max_len < MAX_LINE_LENGTH
                /\ Len(joined) < MAX_JOINED_LENGTH
        THEN [joined |-> TRUE, text |-> joined]
        ELSE [joined |-> FALSE, text |-> t]

\* SubtitleCleaner._join_short: (was_joined, result_text)
join_short(t) ==
    LET lines   == Split(t)
        max_len == MaxLen(lines)
        joined  == JoinWith(lines, <<" ">>)
    IN  IF Len(lines) <= 1 \/ Contains(t, "-")
        THEN [joined |-> FALSE, text |-> t]
        ELSE IF EndsWithQuestion(lines[1])
        THEN [joined |-> FALSE, text |-> t]
        ELSE IF /\ 0 < max_len /\ max_len < MAX_LINE_LENGTH
                /\ Len(joined) < MAX_JOINED_LENGTH
        THEN [joined |-> TRUE, text |-> joined]
        ELSE [joined |-> FALSE, text |-> t]

\* ------------------------------------------------------------ clean_text

\* The whole-text pass, then the per-line pass, of one removal rule.
RemovePasses(pattern, t) ==
    LET whole == Sub(pattern, t)
        lines == Split(whole)
        cleaned_lines == [i \in 1..Len(lines) |-> Sub(pattern, lines[i])]
    IN  JoinWith(cleaned_lines, <<NL>>)

\* not regex_pattern.sub('', joined_text).strip()
Consumed(pattern, t) == Strip(Sub(pattern, ReplaceNewlines(t))) = <<>>

\* A call of clean_text is a record c: text, applied_rules, pc, rule.

\* CleanEntry with the song check looking at the first character only.
CleanEntrySongAtStart(c) ==
    IF c.text = <<>>
    THEN [c EXCEPT !.text = <<>>, !.applied_rules = <<>>, !.pc = "return"]
    ELSE IF c.text[1] = SONG_CHARACTER
    THEN [c EXCEPT !.text = <<>>, !.applied_rules = <<"song">>, !.pc = "return"]
    ELSE [c EXCEPT !.applied_rules = <<>>, !.pc = "remove", !.rule = 1]

\* The checks before the loops: the empty text, the song character.
CleanEntry(c) ==
    IF c.text = <<>>
    THEN [c EXCEPT !.text = <<>>, !.applied_rules = <<>>, !.pc = "return"]
    ELSE IF Contains(c.text, SONG_CHARACTER)
    THEN [c EXCEPT !.text = <<>>, !.applied_rules = <<"song">>, !.pc = "return"]
    ELSE [c EXCEPT !.applied_rules = <<>>, !.pc = "remove", !.rule = 1]

\* RemoveIteration keeping the names recorded so far when the rule consumes
\* the text.
RemoveIterationKeepingNames(c) ==
    LET r      == REMOVE_RE[c.rule]
        passed == RemovePasses(r.pattern, c.text)
        after  == Strip(passed)
    IN  IF Consumed(r.pattern, passed)
        THEN [c EXCEPT !.text = <<>>,
                       !.applied_rules = Append(@, "multiline with " \o r.name),
                       !.pc = "return"]
        ELSE [c EXCEPT !.text = after,
                       !.applied_rules =
                           IF c.text # after THEN Append(@, r.name) ELSE @,
                       !.pc = IF c.rule = Len(REMOVE_RE) THEN "replace" ELSE "remove",
                       !.rule = IF c.rule = Len(REMOVE_RE) THEN 1 ELSE c.rule + 1]

\* RemoveIteration recording a rule's name in front of the names recorded
\* so far.
RemoveIterationPrepending(c) ==
    LET r      == REMOVE_RE[c.rule]
        passed == RemovePasses(r.pattern, c.text)
        after  == Strip(passed)
    IN  IF Consumed(r.pattern, passed)
        THEN [c EXCEPT !.text = <<>>,
                       !.applied_rules = <<"multiline with " \o r.name>>,
                       !.pc = "return"]
        ELSE [c EXCEPT !.text = after,
                       !.applied_rules =
                           IF c.text # after THEN <<r.name>> \o @ ELSE @,
                       !.pc = IF c.rule = Len(REMOVE_RE) THEN "replace" ELSE "remove",
                       !.rule = IF c.rule = Len(REMOVE_RE) THEN 1 ELSE c.rule + 1]

\* One iteration of the loop over the removal rules.
RemoveIteration(c) ==
    LET r      == REMOVE_RE[c.rule]
        passed == RemovePasses(r.pattern, c.text)
        after  == Strip(passed)
    IN  IF Consumed(r.pattern, passed)
        THEN [c EXCEPT !.text = <<>>,
                       !.applied_rules = <<"multiline with " \o r.name>>,
                       !.pc = "return"]
        ELSE [c EXCEPT !.text = after,
                       !.applied_rules =
                           IF c.text # after THEN Append(@, r.name) ELSE @,
                       !.pc = IF c.rule = Len(REMOVE_RE) THEN "replace" ELSE "remove",
                       !.rule = IF c.rule = Len(REMOVE_RE) THEN 1 ELSE c.rule + 1]

\* One iteration of the loop over the replacement rules.
ReplaceIteration(c) ==
    LET r     == REPLACE_RE[c.rule]
        after == Strip(ReSub(r, c.text))
    IN  [c EXCEPT !.text = after,
                  !.applied_rules =
                      IF c.text # after THEN Append(@, r.name) ELSE @,
                  !.pc = IF c.rule = Len(REPLACE_RE) THEN "join" ELSE "replace",
                  !.rule = IF c.rule = Len(REPLACE_RE) THEN 1 ELSE c.rule + 1]

\* The line joiner, and the return.
JoinAndReturn(c) ==
    LET j == join_short(c.text)
    IN  [c EXCEPT !.text = j.text,
                  !.applied_rules =
                      IF j.joined THEN Append(@, "joined lines") ELSE @,
                  !.pc = "return"]

CleanStep(c) ==
    CASE c.pc = "entry"   -> CleanEntry(c)
      [] c.pc = "remove"  -> RemoveIteration(c)
      [] c.pc = "replace" -> ReplaceIteration(c)
      [] c.pc = "join"    -> JoinAndReturn(c)

RECURSIVE CleanRun(_)
CleanRun(c) == IF c.pc = "return" THEN c ELSE CleanRun(CleanStep(c))

\* What a call returns: (cleaned_text, list_of_applied_rule_names).
CleaningResult(c) == [text |-> c.text, applied_rules |-> c.applied_rules]

\* SubtitleCleaner.clean_text
clean_text(t) ==
    CleaningResult(
        CleanRun([text |-> t, applied_rules |-> <<>>, pc |-> "entry", rule |-> 1]))

\* ------------------------------------------------- clean_text, step by step

MaxTokens == 3

\* The pieces the texts given to clean_text are made of.  The four
\* replacement rules for '.', ',', '?' and '!' have the same shape; the
\* texts hold '.' and '?'.
Tokens ==
    { <<"<", "f", "o", "n", "t", ">">>,
      <<"A", ":", " ">>,
      <<"A", "B", "C", ":", " ">>,
      <<"A", ":", NL>>,
      <<"-", " ">>,
      <<"(", "a", ")">>,
      <<"[", "a", "]">>,
      <<"(", "a">>,
      <<"b", ")">>,
      <<NL>>,
      <<" ">>,
      <<" ", " ">>,
      <<"-">>,
      <<"a">>,
      <<".">>,
      <<"?">>,
      <<SONG_CHARACTER>> }

RECURSIVE TextsOf(_)
TextsOf(n) ==
    IF n = 0 THEN {<<>>}
    ELSE LET shorter == TextsOf(n - 1)
         IN  shorter \cup {t \o k : t \in shorter, k \in Tokens}

CleanInputs == TextsOf(MaxTokens)

Call == [text |-> text, applied_rules |-> applied_rules, pc |-> pc, rule |-> rule]

Becomes(c) ==
    /\ text' = c.text
    /\ applied_rules' = c.applied_rules
    /\ pc' = c.pc
    /\ rule' = c.rule
    /\ UNCHANGED <<input, pass, first>>
    /\ UNCHANGED <<joinVars, fileVars, mkvVars>>

NoResult == [joined |-> FALSE, text |-> <<"none">>]

CleanIdle ==
    /\ input = <<>>
    /\ text = <<>>
    /\ applied_rules = <<>>
    /\ pc = "idle"
    /\ rule = 1
    /\ pass = 1
    /\ first = [text |-> <<>>, applied_rules |-> <<>>]

JoinIdle == jtext = <<>> /\ jresult = NoResult

FileIdle ==
    /\ fs = <<>>
    /\ filename = "none"
    /\ output_path = "none"
    /\ subs = <<>>
    /\ opened = <<>>
    /\ index = 1
    /\ delete_indices = <<>>
    /\ dpos = 0
    /\ modified = FALSE
    /\ fpc = "idle"
    /\ events = <<>>
    /\ saves = 0
    /\ renames = 0
    /\ run = 1
    /\ produced = <<>>

MkvIdle ==
    /\ all_tracks = <<>>
    /\ extract_ok = <<>>
    /\ language_filter = "None"
    /\ tracks = <<>>
    /\ ti = 1
    /\ temp_files = {}
    /\ outputs = {}
    /\ mlog = <<>>
    /\ mpc = "idle"

InitClean ==
    /\ JoinIdle
    /\ FileIdle
    /\ MkvIdle
    /\ input \in CleanInputs
    /\ text = input
    /\ applied_rules = <<>>
    /\ pc = "entry"
    /\ rule = 1
    /\ pass = 1
    /\ first = [text |-> <<>>, applied_rules |-> <<>>]

Entry == pc = "entry" /\ Becomes(CleanEntry(Call))

RemoveRule == pc = "remove" /\ Becomes(RemoveIteration(Call))

ReplaceRule == pc = "replace" /\ Becomes(ReplaceIteration(Call))

JoinShort == pc = "join" /\ Becomes(JoinAndReturn(Call))

\* clean_text called on the text the first call returned.
CleanAgain ==
    /\ pc = "return"
    /\ pass = 1
    /\ first' = [text |-> text, applied_rules |-> applied_rules]
    /\ pass' = 2
    /\ pc' = "entry"
    /\ applied_rules' = <<>>
    /\ rule' = 1
    /\ UNCHANGED <<input, text>>
    /\ UNCHANGED <<joinVars, fileVars, mkvVars>>

NextClean == Entry \/ RemoveRule \/ ReplaceRule \/ JoinShort \/ CleanAgain

SpecClean == InitClean /\ [][NextClean]_vars

\* ------------------------------------------------- _join_short, one call

MaxJoinLines == 3

\* Line lengths at and around the two thresholds.
JoinLineLens ==
    { 0, 1,
      MAX_JOINED_LENGTH - MAX_LINE_LENGTH - 1,
      MAX_JOINED_LENGTH - MAX_LINE_LENGTH,
      MAX_LINE_LENGTH - 1,
      MAX_LINE_LENGTH }

\* A line of n characters: letters, the last one maybe a '?' or a dash.
JoinLine(n, last) == [i \in 1..n |-> IF i = n THEN last ELSE "a"]

JoinLinesSet == {JoinLine(n, last) : n \in JoinLineLens, last \in {"a", "?", "-"}}

RECURSIVE JoinTextsOf(_)
JoinTextsOf(n) ==
    IF n = 1 THEN JoinLinesSet
    ELSE LET fewer == JoinTextsOf(n - 1)
         IN  fewer \cup {t \o <<NL>> \o l : t \in fewer, l \in JoinLinesSet}

JoinInputs == JoinTextsOf(MaxJoinLines)

InitJoin ==
    /\ CleanIdle
    /\ FileIdle
    /\ MkvIdle
    /\ jtext \in JoinInputs
    /\ jresult = NoResult

CallJoinShort ==
    /\ jresult = NoResult
    /\ jresult' = join_short(jtext)
    /\ UNCHANGED jtext
    /\ UNCHANGED <<cleanVars, fileVars, mkvVars>>

NextJoin == CallJoinShort

SpecJoin == InitJoin /\ [][NextJoin]_vars

\* ------------------------------------------------- process_subtitle_file

MaxEntries == 3

MaxRuns == 2

\* The texts of the entries of a document.
EntryTexts ==
    { <<"a">>,
      <<"(", "a", ")">>,
      <<"A", ":", " ", "a">>,
      <<"(", "a", ")", "A", ":", " ", "a">>,
      <<"a", NL, "b">> }

\* An entry is its index in the file and its text; a parsed file holds the
\* indexes 1, 2, ... in order.
RECURSIVE DocsOf(_)
DocsOf(n) ==
    IF n = 0 THEN {<<>>}
    ELSE LET shorter == DocsOf(n - 1)
         IN  shorter \cup
             {Append(d, [index |-> Len(d) + 1, text |-> t]) :
                  d \in {e \in shorter : Len(e) = n - 1}, t \in EntryTexts}

Docs == DocsOf(MaxEntries)

\* What a path holds: a file pysrt parses to doc, a file pysrt cannot parse,
\* or no file.
File(d) == [kind |-> "srt", doc |-> d]
Garbage == [kind |-> "garbage", doc |-> <<>>]
Absent == [kind |-> "absent", doc |-> <<>>]

\* No output_path given.
None == "None"

SrcPath == "sub.srt"
OutPath == "out.srt"

\* original_path.with_name(f'_{original_path.name}')
BackupPath(path) == "_" \o path

Paths == {SrcPath, OutPath, BackupPath(SrcPath), BackupPath(OutPath)}

IsDoc(content) == content.kind = "srt"

\* del subs[index], index counted from 0 as in delete_indices.
DeleteAt(doc, i) == SubSeq(doc, 1, i) \o SubSeq(doc, i + 2, Len(doc))

\* The deletions going through delete_indices from its start.
NextToDeleteForward(indices, remaining) == indices[Len(indices) - remaining + 1]

\* The next position to delete, going through reversed(delete_indices).
NextToDelete(indices, remaining) == indices[remaining]

InitFile ==
    /\ CleanIdle
    /\ JoinIdle
    /\ MkvIdle
    /\ \E content \in {File(d) : d \in Docs} \cup {Absent, Garbage} :
          fs = [q \in Paths |-> IF q = SrcPath THEN content ELSE Absent]
    /\ filename = SrcPath
    /\ output_path \in {None, OutPath}
    /\ subs = <<>>
    /\ opened = <<>>
    /\ index = 0
    /\ delete_indices = <<>>
    /\ dpos = 0
    /\ modified = FALSE
    /\ fpc = "open"
    /\ events = <<>>
    /\ saves = 0
    /\ renames = 0
    /\ run = 1
    /\ produced = <<>>

\* Raise with the exception leaving the call and no error event sent to the
\* output handler.
RaiseUnreported(event) ==
    /\ UNCHANGED events
    /\ fpc' = "raised"

\* handler.error(...); raise
Raise(event) ==
    /\ events' = Append(events, event)
    /\ fpc' = "raised"

\* subs = pysrt.open(filename): fails on a missing or unparseable file, and
\* may fail on any file (an I/O error).
Open ==
    /\ fpc = "open"
    /\ \E ok \in {TRUE, FALSE} :
          IF ok /\ IsDoc(fs[filename])
          THEN /\ subs' = fs[filename].doc
               /\ opened' = fs[filename].doc
               /\ index' = 0
               /\ delete_indices' = <<>>
               /\ modified' = FALSE
               /\ fpc' = IF fs[filename].doc = <<>> THEN "delete" ELSE "loop"
               /\ UNCHANGED events
          ELSE /\ Raise(<<"error", "open", filename>>)
               /\ UNCHANGED <<subs, opened, index, delete_indices, modified>>
    /\ UNCHANGED <<fs, filename, output_path, dpos, saves, renames, run, produced>>
    /\ UNCHANGED <<cleanVars, joinVars, mkvVars>>

\* The body of the loop over enumerate(subs), given what clean_text returned
\* for the entry's text; after the last entry the deletions start from the
\* end of delete_indices.
HandleCleaned(original_text, cleaned) ==
    /\ delete_indices' = IF cleaned.text = <<>>
                         THEN Append(delete_indices, index)
                         ELSE delete_indices
    /\ modified' = (modified \/ cleaned.text = <<>>
                             \/ cleaned.text # original_text)
    /\ events' =
           IF cleaned.text = <<>>
           THEN Append(events, <<"show_deleted", original_text>>)
           ELSE IF cleaned.text # original_text
           THEN Append(events, <<"show_cleaning", original_text,
                                 cleaned.text, cleaned.applied_rules>>)
           ELSE events
    /\ subs' = [subs EXCEPT ![index + 1].text = cleaned.text]
    /\ index' = index + 1
    /\ fpc' = IF index + 1 = Len(subs) THEN "delete" ELSE "loop"
    /\ dpos' = IF index + 1 = Len(subs) THEN Len(delete_indices') ELSE dpos

\* One iteration of the loop over enumerate(subs).
ProcessEntry ==
    /\ fpc = "loop"
    /\ HandleCleaned(subs[index + 1].text, clean_text(subs[index + 1].text))
    /\ UNCHANGED <<fs, filename, output_path, opened, saves, renames, run, produced>>
    /\ UNCHANGED <<cleanVars, joinVars, mkvVars>>

\* One iteration of the loop over reversed(delete_indices).
DeleteMarked ==
    /\ fpc = "delete"
    /\ dpos > 0
    /\ subs' = DeleteAt(subs, NextToDelete(delete_indices, dpos))
    /\ dpos' = dpos - 1
    /\ UNCHANGED <<fs, filename, output_path, opened, index, delete_indices,
                   modified, fpc, events, saves, renames, run, produced>>
    /\ UNCHANGED <<cleanVars, joinVars, mkvVars>>

DeletionDone == fpc = "delete" /\ dpos = 0

\* subs.save(path): writes the document, or fails and leaves the file as it
\* was or half written.
Save(path, ok, half) ==
    /\ saves' = saves + 1
    /\ fs' = IF ok THEN [fs EXCEPT ![path] = File(subs)]
             ELSE IF half THEN [fs EXCEPT ![path] = Garbage]
             ELSE fs

\* output_path given, modified: save to output_path and return.
SaveToOutputPath ==
    /\ DeletionDone
    /\ output_path # None
    /\ modified
    /\ \E ok \in {TRUE, FALSE}, half \in {TRUE, FALSE} :
          /\ ok => ~half
          /\ Save(output_path, ok, half)
          /\ IF ok
             THEN fpc' = "returned" /\ UNCHANGED events
             ELSE Raise(<<"error", "save", output_path>>)
    /\ UNCHANGED <<filename, output_path, subs, opened, index, delete_indices,
                   dpos, modified, renames, run, produced>>
    /\ UNCHANGED <<cleanVars, joinVars, mkvVars>>

\* output_path given, not modified: report and return.
ReportAlreadyClean ==
    /\ DeletionDone
    /\ output_path # None
    /\ ~modified
    /\ events' = Append(events, <<"success", "Already clean file", filename>>)
    /\ fpc' = "returned"
    /\ UNCHANGED <<fs, filename, output_path, subs, opened, index,
                   delete_indices, dpos, modified, saves, renames, run, produced>>
    /\ UNCHANGED <<cleanVars, joinVars, mkvVars>>

\* No output_path: original_path.rename(backup_path).  Onto an existing
\* backup the rename replaces it (POSIX) or fails (Windows); it may fail
\* in any case (an I/O error).
RenameToBackup ==
    /\ DeletionDone
    /\ output_path = None
    /\ \E ok \in {TRUE, FALSE} :
          IF ok
          THEN /\ fs' = [fs EXCEPT ![BackupPath(filename)] = fs[filename],
                                   ![filename] = Absent]
               /\ renames' = renames + 1
               /\ fpc' = "save"
               /\ UNCHANGED events
          ELSE /\ Raise(<<"error", "backup", filename>>)
               /\ UNCHANGED <<fs, renames>>
    /\ UNCHANGED <<filename, output_path, subs, opened, index, delete_indices,
                   dpos, modified, saves, run, produced>>
    /\ UNCHANGED <<cleanVars, joinVars, mkvVars>>

\* No output_path: save to the original path, report and return.
SaveToOriginalPath ==
    /\ fpc = "save"
    /\ \E ok \in {TRUE, FALSE}, half \in {TRUE, FALSE} :
          /\ ok => ~half
          /\ Save(filename, ok, half)
          /\ IF ok
             THEN /\ fpc' = "returned"
                  /\ events' = Append(events,
                         <<"success",
                           IF modified THEN "Cleaned file" ELSE "Already clean file",
                           filename>>)
             ELSE Raise(<<"error", "save", filename>>)
    /\ UNCHANGED <<filename, output_path, subs, opened, index, delete_indices,
                   dpos, modified, renames, run, produced>>
    /\ UNCHANGED <<cleanVars, joinVars, mkvVars>>

\* The call has returned (its value is modified): the next call, on the
\* source or on the output of this one, with or without an output_path.
CallAgain ==
    /\ fpc = "returned"
    /\ run < MaxRuns
    /\ run' = run + 1
    /\ produced' = subs
    /\ filename' \in {SrcPath, OutPath}
    /\ output_path' \in {None, OutPath}
    /\ fpc' = "open"
    /\ events' = <<>>
    /\ saves' = 0
    /\ renames' = 0
    /\ subs' = <<>>
    /\ opened' = <<>>
    /\ index' = 0
    /\ delete_indices' = <<>>
    /\ dpos' = 0
    /\ modified' = FALSE
    /\ UNCHANGED fs
    /\ UNCHANGED <<cleanVars, joinVars, mkvVars>>

NextFile ==
    \/ Open
    \/ ProcessEntry
    \/ DeleteMarked
    \/ SaveToOutputPath
    \/ ReportAlreadyClean
    \/ RenameToBackup
    \/ SaveToOriginalPath
    \/ CallAgain

SpecFile == InitFile /\ [][NextFile]_vars

\* ------------------------------------------------- process_mkv

MaxTracks == 3

\* A track without a language.
NoLanguage == "(none)"

Languages == {"EN", "fi", NoLanguage}

\* str.lower() on the language codes.
LowerCase(lang) == IF lang = "EN" THEN "en" ELSE lang

\* The track lists list_srt_tracks may return: track ids 1, 2, ... in order.
TrackLists ==
    UNION {[1..n -> Languages] : n \in 0..MaxTracks}

\* tracks after the language filter.
RECURSIVE FilterTracks(_, _)
FilterTracks(list, lang) ==
    IF list = <<>> THEN <<>>
    ELSE IF list[1].lang # NoLanguage /\ LowerCase(list[1].lang) = LowerCase(lang)
    THEN <<list[1]>> \o FilterTracks(Tail(list), lang)
    ELSE FilterTracks(Tail(list), lang)

InitMkv ==
    /\ CleanIdle
    /\ JoinIdle
    /\ FileIdle
    /\ \E langs \in TrackLists :
          all_tracks = [j \in 1..Len(langs) |-> [id |-> j, lang |-> langs[j]]]
    /\ extract_ok \in [1..Len(all_tracks) -> {TRUE, FALSE}]
    /\ language_filter \in {None, "en"}
    /\ tracks = <<>>
    /\ ti = 1
    /\ temp_files = {}
    /\ outputs = {}
    /\ mlog = <<>>
    /\ mpc = "start"

MkvReturn(message) ==
    /\ mlog' = Append(mlog, message)
    /\ mpc' = "done"

\* The checks before the tracks are listed: mkvextract and mkvinfo are
\* installed, the MKV file exists.
CheckTools ==
    /\ mpc = "start"
    /\ \E has_mkvextract \in {TRUE, FALSE}, has_mkvinfo \in {TRUE, FALSE},
          mkv_exists \in {TRUE, FALSE} :
          IF ~has_mkvextract THEN MkvReturn(<<"mkvextract not found">>)
          ELSE IF ~has_mkvinfo
          THEN mlog' = Append(mlog, <<"mkvinfo not found">>) /\ mpc' = "exit"
          ELSE IF ~mkv_exists THEN MkvReturn(<<"File not found">>)
          ELSE mlog' = Append(mlog, <<"Processing MKV file">>) /\ mpc' = "list"
    /\ UNCHANGED <<all_tracks, extract_ok, language_filter, tracks, ti,
                   temp_files, outputs>>
    /\ UNCHANGED <<cleanVars, joinVars, fileVars>>

\* list_srt_tracks (mkvinfo may fail, and the error propagates), then the
\* language filter.
ListTracks ==
    /\ mpc = "list"
    /\ \E mkvinfo_ok \in {TRUE, FALSE} :
          IF ~mkvinfo_ok
          THEN mpc' = "raised" /\ UNCHANGED <<tracks, mlog>>
          ELSE IF all_tracks = <<>>
          THEN MkvReturn(<<"No SRT subtitle tracks found">>) /\ UNCHANGED tracks
          ELSE IF language_filter = None
          THEN /\ tracks' = all_tracks
               /\ mlog' = Append(mlog, <<"Found tracks", Len(all_tracks)>>)
               /\ mpc' = "extract"
          ELSE IF FilterTracks(all_tracks, language_filter) = <<>>
          THEN MkvReturn(<<"No SRT subtitle tracks found with language code">>)
               /\ UNCHANGED tracks
          ELSE /\ tracks' = FilterTracks(all_tracks, language_filter)
               /\ mlog' = Append(mlog, <<"Found tracks", Len(tracks')>>)
               /\ mpc' = "extract"
    /\ UNCHANGED <<all_tracks, extract_ok, language_filter, ti, temp_files, outputs>>
    /\ UNCHANGED <<cleanVars, joinVars, fileVars>>

\* Where the loop over the tracks is after the iteration at position j: at
\* the next track, or past the last one, where the temp directory is
\* removed and the call returns.
AfterTrack(j) == IF j = Len(tracks) THEN "done" ELSE "extract"

\* A failed extraction ending the loop.
AfterFailedExtractionBreak(j) == "done"

\* 'continue' after a failed extraction.
AfterFailedExtraction(j) == AfterTrack(j)

\* extract_srt_track for the track at ti; a failure is printed and the loop
\* continues.
ExtractTrack ==
    /\ mpc = "extract"
    /\ LET id == tracks[ti].id
       IN  IF extract_ok[id]
           THEN /\ mlog' = Append(mlog, <<"Processing track", id>>)
                /\ temp_files' = temp_files \cup {id}
                /\ mpc' = "process"
                /\ UNCHANGED ti
           ELSE /\ mlog' = mlog \o << <<"Processing track", id>>,
                                      <<"Failed to extract track", id>> >>
                /\ mpc' = AfterFailedExtraction(ti)
                /\ ti' = ti + 1
                /\ temp_files' = IF mpc' = "done" THEN {} ELSE temp_files
    /\ UNCHANGED <<all_tracks, extract_ok, language_filter, tracks, outputs>>
    /\ UNCHANGED <<cleanVars, joinVars, fileVars>>

\* process_subtitle_file on the extracted file with the output path of the
\* track: it returns True after saving the output, returns False and the
\* extracted file is copied to the output, or raises.
ProcessTrack ==
    /\ mpc = "process"
    /\ LET id == tracks[ti].id
       IN  \E outcome \in {"modified", "clean", "raises"} :
              IF outcome = "raises"
              THEN /\ mpc' = "raised"
                   /\ temp_files' = {}
                   /\ UNCHANGED <<outputs, mlog, ti>>
              ELSE /\ outputs' = outputs \cup {id}
                   /\ mlog' = Append(mlog,
                          <<IF outcome = "modified"
                            THEN "Saved processed track"
                            ELSE "Saved clean track", id>>)
                   /\ mpc' = AfterTrack(ti)
                   /\ ti' = ti + 1
                   /\ temp_files' = IF mpc' = "done" THEN {} ELSE temp_files
    /\ UNCHANGED <<all_tracks, extract_ok, language_filter, tracks>>
    /\ UNCHANGED <<cleanVars, joinVars, fileVars>>

NextMkv == CheckTools \/ ListTracks \/ ExtractTrack \/ ProcessTrack

SpecMkv == InitMkv /\ [][NextMkv]_vars

\* ------------------------------------------------- claims about clean_text

Returned == pc = "return" /\ pass = 1

\* C1: clean_text is idempotent: the call on the text the first call returned
\* returns that text unchanged.
C1_CleanTextIdempotent ==
    (pc = "return" /\ pass = 2) => text = first.text

\* C5: a text containing the song character is discarded at once: the call
\* returns the empty text with applied rules <<"song">>, and no removal rule,
\* replacement rule or line join runs.
C5_SongDiscarded ==
    (pass = 1 /\ Contains(input, SONG_CHARACTER)) =>
        /\ pc \in {"entry", "return"}
        /\ pc = "return" => (text = <<>> /\ applied_rules = <<"song">>)

C5_Witness ==
    /\ Returned
    /\ Contains(input, SONG_CHARACTER)
    /\ Contains(input, "(")
    /\ input[1] # SONG_CHARACTER
    /\ applied_rules = <<"song">>

\* The removal rule about to run consumes the text: after its two passes,
\* one more application to the text with line breaks replaced by spaces
\* leaves nothing but whitespace.
ConsumesNow ==
    /\ pc = "remove"
    /\ Consumed(REMOVE_RE[rule].pattern,
                RemovePasses(REMOVE_RE[rule].pattern, text))

\* C7 as stated: when a removal rule consumes the text, the call returns the
\* empty text, no later removal rule runs, and 'multiline with <rule name>'
\* is recorded after the names already recorded.
C7_MarkerAfterEarlierNames ==
    [][ConsumesNow =>
          /\ text' = <<>>
          /\ pc' = "return"
          /\ applied_rules' =
                 Append(applied_rules, "multiline with " \o REMOVE_RE[rule].name)]_vars

\* C7 amended: when a removal rule consumes the text, the call returns the
\* empty text, no later removal rule runs, and the applied rules are exactly
\* <<'multiline with <rule name>'>>: the names recorded before are dropped.
C7_MarkerAlone ==
    [][ConsumesNow =>
          /\ text' = <<>>
          /\ pc' = "return"
          /\ applied_rules' = <<"multiline with " \o REMOVE_RE[rule].name>>]_vars

\* 'font styling' changed the text, then 'effect' consumed it.
C7_Witness ==
    /\ Returned
    /\ input = <<"<", "f", "o", "n", "t", ">", "(", "a", ")">>
    /\ text = <<>>
    /\ applied_rules = <<"multiline with effect">>

\* The names in the configured order.
ConfiguredOrder ==
    [i \in 1..Len(REMOVE_RE) |-> REMOVE_RE[i].name]
    \o [i \in 1..Len(REPLACE_RE) |-> REPLACE_RE[i].name]
    \o <<"joined lines">>

\* How many entries of ConfiguredOrder the call has gone through.
RulesDone ==
    CASE pc = "entry"   -> 0
      [] pc = "remove"  -> rule - 1
      [] pc = "replace" -> Len(REMOVE_RE) + rule - 1
      [] pc = "join"    -> Len(REMOVE_RE) + Len(REPLACE_RE)
      [] pc = "return"  -> Len(ConfiguredOrder)

\* a is b with some entries left out.
RECURSIVE IsSubseq(_, _)
IsSubseq(a, b) ==
    IF a = <<>> THEN TRUE
    ELSE IF b = <<>> THEN FALSE
    ELSE IF a[1] = b[1] THEN IsSubseq(Tail(a), Tail(b))
    ELSE IsSubseq(a, Tail(b))

\* C8: the applied rules are in the configured order, each configured rule
\* at most once: at every point of the call they are the configured names of
\* the rules gone through so far with some left out (removal rules, then
\* replacement rules, then 'joined lines'); the two early returns give a
\* single name.
C8_AppliedInConfiguredOrder ==
    \/ IsSubseq(applied_rules, SubSeq(ConfiguredOrder, 1, RulesDone))
    \/ pc = "return" /\ applied_rules = <<"song">>
    \/ pc = "return" /\ \E k \in 1..Len(REMOVE_RE) :
           applied_rules = <<"multiline with " \o REMOVE_RE[k].name>>

\* A removal rule and then a replacement rule both changed the text.
C8_Witness ==
    /\ Returned
    /\ applied_rules = <<"effect", "dot missing space">>

\* s is two words of lower-case letters with two or more spaces between.
WideGap(s) ==
    LET w == RunLen(s, 1, Lower)
        g == RunLen(s, w + 1, {" "})
        v == RunLen(s, w + g + 1, Lower)
    IN  w >= 1 /\ g >= 2 /\ v >= 1 /\ w + g + v = Len(s)

\* s with the spaces between its two words replaced by one space.
SingleSpaced(s) ==
    LET w == RunLen(s, 1, Lower)
        g == RunLen(s, w + 1, {" "})
    IN  SubSeq(s, 1, w) \o <<" ">> \o SubSeq(s, w + g + 1, Len(s))

\* C9: two words separated by two or more spaces come out separated by
\* exactly one space.
C9_DoubleSpacesKeepOneSpace ==
    (Returned /\ WideGap(input)) => text = SingleSpaced(input)

\* ------------------------------------------------- claims about _join_short

\* The number of lines of t.
LineCount(t) == 1 + Cardinality({i \in 1..Len(t) : t[i] = NL})

\* The first line of t ends with '?'.
FirstLineIsQuestion(t) ==
    \E i \in 1..Len(t) :
        /\ t[i] = "?"
        /\ \A j \in 1..i : t[j] # NL
        /\ (i = Len(t) \/ t[i + 1] = NL)

\* The five conditions of the claim.
JoinConditions(t) ==
    /\ LineCount(t) > 1
    /\ ~Contains(t, "-")
    /\ ~FirstLineIsQuestion(t)
    /\ MaxLen(Split(t)) < MAX_LINE_LENGTH
    /\ Len(t) < MAX_JOINED_LENGTH

\* C6 as stated: the call returns (True, the lines joined by single spaces)
\* exactly when the text has more than one line, no dash, a first line not
\* ending with '?', a longest line shorter than 30 and a joined length under
\* 40, and (False, the text) in every other case.
C6_JoinedExactlyWhenFive ==
    jresult # NoResult =>
        jresult = IF JoinConditions(jtext)
                  THEN [joined |-> TRUE, text |-> ReplaceNewlines(jtext)]
                  ELSE [joined |-> FALSE, text |-> jtext]

\* C6 amended: as stated, with a sixth condition: some line is not empty.
C6_JoinedExactlyWhenSix ==
    jresult # NoResult =>
        jresult = IF /\ JoinConditions(jtext)
                     /\ \E i \in 1..Len(jtext) : jtext[i] # NL
                  THEN [joined |-> TRUE, text |-> ReplaceNewlines(jtext)]
                  ELSE [joined |-> FALSE, text |-> jtext]

\* A join at both thresholds: a line of 29 and a line of 9 give 39.
C6_Witness ==
    /\ jresult # NoResult
    /\ jresult.joined
    /\ Len(jresult.text) = MAX_JOINED_LENGTH - 1
    /\ MaxLen(Split(jtext)) = MAX_LINE_LENGTH - 1

\* ------------------------------------- claims about process_subtitle_file

\* The entries of doc whose cleaned text is not empty, in order, each with
\* its cleaned text.
RECURSIVE Kept(_)
Kept(doc) ==
    IF doc = <<>> THEN <<>>
    ELSE IF clean_text(doc[1].text).text = <<>>
    THEN Kept(Tail(doc))
    ELSE <<[index |-> doc[1].index, text |-> clean_text(doc[1].text).text]>>
         \o Kept(Tail(doc))

\* The path the call saves to.
SavePath == IF output_path = None THEN filename ELSE output_path

LastEvent == events[Len(events)]

\* C2: when no entry is modified or deleted the call writes no file, with no
\* save and no rename of the source, and reports 'Already clean', with or
\* without an output_path.
C2_CleanWritesNothing ==
    (fpc \in {"save", "returned", "raised"} /\ ~modified) =>
        /\ saves = 0
        /\ renames = 0
        /\ fpc = "returned" =>
               /\ events # <<>>
               /\ LastEvent[1] = "success"
               /\ LastEvent[2] = "Already clean file"

\* C3: when an entry is modified or deleted and the call returns, it returns
\* True after exactly one save, and the saved document is the original
\* entries whose cleaned text is not empty, in their order, each with its
\* cleaned text.
C3_ModifiedSavedOnce ==
    (fpc = "returned" /\ modified) =>
        /\ saves = 1
        /\ subs = Kept(opened)
        /\ fs[SavePath] = File(Kept(opened))

\* Two entries deleted, one kept.
C3_Witness ==
    /\ fpc = "returned"
    /\ modified
    /\ Len(opened) = 3
    /\ Len(delete_indices) = 2
    /\ Len(subs) = 1
    /\ fs[SavePath] = File(subs)

\* C4: a second pass over the document a first pass produced changes
\* nothing: no entry is changed, none is deleted, modified is False.
C4_SecondPassChangesNothing ==
    (run > 1 /\ fpc \in {"delete", "save", "returned"} /\ opened = produced) =>
        /\ ~modified
        /\ delete_indices = <<>>
        /\ subs = opened

\* ------------------------------------------------- claims about process_mkv

InLoop == mpc \in {"extract", "process"} \/ (mpc \in {"done", "raised"} /\ tracks # <<>>)

\* The ids, in order, of the first n tracks whose extraction fails.
RECURSIVE FailedAmong(_)
FailedAmong(n) ==
    IF n = 0 THEN <<>>
    ELSE IF extract_ok[tracks[n].id]
    THEN FailedAmong(n - 1)
    ELSE Append(FailedAmong(n - 1), tracks[n].id)

\* The ids, in order, of the messages of one kind in the log.
RECURSIVE Logged(_, _)
Logged(log, kind) ==
    IF log = <<>> THEN <<>>
    ELSE IF log[1][1] = kind
    THEN <<log[1][2]>> \o Logged(Tail(log), kind)
    ELSE Logged(Tail(log), kind)

\* C10: a failed extraction is reported for that track only, the tracks
\* after it are still extracted and processed in the order of the list, and
\* a failed track gets no output file: the loop only ends past the last
\* track or on an exception of process_subtitle_file for a track that was
\* extracted, and the tracks gone through have an output file exactly when
\* their extraction succeeded.
C10_FailedExtractionSkipsOneTrack ==
    InLoop =>
        /\ mpc = "done" => ti = Len(tracks) + 1
        /\ mpc = "raised" => (ti <= Len(tracks) /\ extract_ok[tracks[ti].id])
        /\ \A j \in 1..Len(tracks) :
               tracks[j].id \in outputs <=> (j < ti /\ extract_ok[tracks[j].id])
        /\ Logged(mlog, "Failed to extract track") = FailedAmong(ti - 1)
        /\ Logged(mlog, "Processing track") =
               [j \in 1..(IF mpc \in {"process", "raised"} THEN ti ELSE ti - 1)
                    |-> tracks[j].id]

\* The first of three tracks failed, the other two have their output.
C10_Witness ==
    /\ mpc = "done"
    /\ Len(tracks) = 3
    /\ ~extract_ok[tracks[1].id]
    /\ outputs = {tracks[2].id, tracks[3].id}

\* ------------------------------ claims about the failures of the file I/O

\* The step out of pysrt.open: the document is read, or the failure is
\* reported and raised before any entry, rename or save.
OpenStep ==
    (fpc = "open" /\ fpc' # "open") =>
        \/ /\ IsDoc(fs[filename])
           /\ fpc' \in {"loop", "delete"}
           /\ subs' = fs[filename].doc
        \/ /\ fpc' = "raised"
           /\ events' = Append(events, <<"error", "open", filename>>)
           /\ index' = 0
           /\ delete_indices' = <<>>
           /\ subs' = <<>>
           /\ saves' = 0
           /\ renames' = 0
           /\ fs' = fs

\* The step out of the rename to the backup: the source is now the backup,
\* or the failure is reported and raised.
RenameStep ==
    (DeletionDone /\ output_path = None /\ fpc' # fpc) =>
        \/ /\ fpc' = "save"
           /\ renames' = renames + 1
           /\ fs'[BackupPath(filename)] = fs[filename]
        \/ /\ fpc' = "raised"
           /\ events' = Append(events, <<"error", "backup", filename>>)

\* The step of a save: the document is in the file and the call returns, or
\* the failure is reported and raised.
SaveStep ==
    (saves' = saves + 1) =>
        \/ /\ fpc' = "returned"
           /\ fs'[SavePath] = File(subs)
        \/ /\ fpc' = "raised"
           /\ events' = Append(events, <<"error", "save", SavePath>>)

\* C11: every I/O failure of process_subtitle_file (the open, the rename to
\* the backup, the save) sends an error event to the output handler and
\* leaves the call as an exception, and the call does not go on after it; a
\* failed open leaves no entry processed, no rename and no save.
C11_FailuresReportedAndRaised ==
    [][/\ OpenStep
       /\ RenameStep
       /\ SaveStep
       /\ (fpc = "raised" => fpc' = "raised")]_vars

\* A save failed after the source was renamed to the backup.
C11_Witness ==
    /\ fpc = "raised"
    /\ renames = 1
    /\ saves = 1
    /\ events # <<>>
    /\ LastEvent = <<"error", "save", SrcPath>>
    /\ fs[SrcPath] # File(subs)

\* ------------------------------------------ claims about the backup file

\* C12: with no output_path, the backup '_<name>' of a file keeps the content
\* the file had before the first run, whatever runs follow: once a backup
\* exists, no later run's rename replaces its content.
C12_BackupNeverOverwritten ==
    [][\A p \in {SrcPath, OutPath} :
           fs[BackupPath(p)] # Absent =>
               fs'[BackupPath(p)] = fs[BackupPath(p)]]_vars

\* ------------------------------- claims about the whitespace of the result

\* No whitespace at either end of s.
Trimmed(s) ==
    s # <<>> => (s[1] \notin Whitespace /\ s[Len(s)] \notin Whitespace)

\* No two whitespace characters next to each other in s.
NoAdjacentWhitespace(s) ==
    \A i \in 1..(Len(s) - 1) :
        ~(s[i] \in Whitespace /\ s[i + 1] \in Whitespace)

\* C13: the text clean_text returns has no whitespace at its start or end
\* and no two whitespace characters (spaces, line breaks) in a row, also
\* when a replacement rule inserted a space or the joiner merged lines.
C13_ResultWhitespaceNormalised ==
    pc = "return" => (Trimmed(text) /\ NoAdjacentWhitespace(text))

\* The input had whitespace at an end or doubled, and the text returned
\* still has whitespace inside.
C13_Witness ==
    /\ Returned
    /\ ~(Trimmed(input) /\ NoAdjacentWhitespace(input))
    /\ \E i \in 1..Len(text) : text[i] \in Whitespace

====
